---- MODULE Spec2Model ----
(***************************************************************************)
(* Order lifecycle and payment-confirmation workflow of routes.py:         *)
(* submit_order, create_checkout_session, payment_success, payment_cancel, *)
(* admin_update_order and refer_friend, with the notification senders.     *)
(* In Spec each handler is one atomic action (one request, one commit);    *)
(* SpecLookups adds the read-only track_order to them; SpecTrack applies   *)
(* track_order to the tables submit_order can build;                       *)
(* SpecRefer and SpecRace split a handler at its reads, its commit and its *)
(* send, so that requests on several workers interleave.                   *)
(***************************************************************************)
EXTENDS Integers, Sequences, FiniteSets, TLC

\* ------------------------------------------------------------- bounds
MaxOrders == 1
MaxSessions == 2
MaxReferrals == 2
MaxEvents == 4
MaxTable == 2
MaxWorkers == 2

\* ------------------------------------------------------------- data
\* Python's None, for a missing row, an unset column or an absent parameter
None == 0

Tiers == {"basic", "standard", "premium"}

\* what a client can put in the service_tier field
TierInputs == Tiers \cup {"deluxe"}

Emails == {"a@x", "b@x"}

\* OrderStatusForm.status choices (forms.py)
StatusChoices == {"pending", "in_progress", "completed", "cancelled"}

\* the admin_notes an admin posts
Notes == {"note"}

\* the Service table: read-only for every handler of routes.py
Services ==
    (1 :> [active |-> TRUE,  price_basic |-> 99, price_standard |-> 149, price_premium |-> 299]) @@
    (2 :> [active |-> FALSE, price_basic |-> 49, price_standard |-> 79,  price_premium |-> 129])

ServiceIds == DOMAIN Services

\* a service_id a client can post: a listed one, or one that names no row
ServiceInputs == ServiceIds \cup {3}

\* what becomes of a notification: mail.send sends it, mail.send raises, or
\* the sender returns at once because no mail object is configured
SendOutcomes == {"sent", "raised", "skipped"}

VARIABLES
    orders,          \* the Order table: a sequence, id = index (autoincrement)
    issued,          \* the provider's checkout sessions: token = index
    stripe_api_key,  \* whether STRIPE_SECRET_KEY is configured
    referrals,       \* the Referral table
    confirmations,   \* per order id, the payment confirmations mail.send sent
    tracking,        \* the OrderTracking table
    clock,           \* the time datetime.utcnow() last returned
    events,          \* state-changing events so far
    last,            \* the request just handled, its response and its send
    procs            \* per worker, the request it is in the middle of

vars == <<orders, issued, stripe_api_key, referrals, confirmations, tracking,
          clock, events, last, procs>>

\* the server's workers, each handling one request at a time
Workers == 1..MaxWorkers

\* a worker between requests
Idle == [pc |-> "idle"]

OrderIds == 1..Len(orders)

Now == clock + 1

\* ------------------------------------------------------------- helpers

\* the values of the Order columns that submit_order does not set
OrderDefaults ==
    [status |-> "pending", payment_status |-> "unpaid",
     stripe_session_id |-> None, admin_notes |-> "",
     updated_at |-> None, completed_at |-> None]

\* Order(...) as submit_order builds it
NewOrder(email, service_id, service_tier, total_amount) ==
    [email |-> email, service_id |-> service_id, service_tier |-> service_tier,
     total_amount |-> total_amount] @@ OrderDefaults

\* Python truthiness of a price (not total_amount): None and 0 are falsy
Falsy(amount) == amount = None \/ amount = 0

\* tier_prices with the premium entry filled from the wrong column
tier_prices_wrong_column(service, tier) ==
    CASE tier = "basic" -> service.price_basic
      [] tier = "standard" -> service.price_standard
      [] tier = "premium" -> service.price_standard
      [] OTHER -> None

\* tier_prices.get(form.service_tier.data)
tier_prices(service, tier) ==
    CASE tier = "basic" -> service.price_basic
      [] tier = "standard" -> service.price_standard
      [] tier = "premium" -> service.price_premium
      [] OTHER -> None

\* form.service_id.choices: the active services
service_id_choices == {s \in ServiceIds : Services[s].active}

\* OrderForm.validate_on_submit(): the posted fields validate and the
\* service_id is one of the choices
OrderFormValid(req) == req.fieldsOk /\ req.service_id \in service_id_choices

\* Order.query.filter_by(stripe_session_id=session_id).first(); None if no row
OrderBySession(ords, session_id) ==
    LET hits == {o \in 1..Len(ords) : ords[o].stripe_session_id = session_id}
    IN IF hits = {} THEN None ELSE CHOOSE o \in hits : \A p \in hits : o <= p

\* the request just handled: the handler, the order (or referral) it acted on,
\* its response, and what became of its notification
Request(op, oid, resp, mail) ==
    [op |-> op, oid |-> oid, resp |-> resp, mail |-> mail]

Init ==
    /\ orders = <<>>
    /\ issued = <<>>
    /\ stripe_api_key \in BOOLEAN
    /\ referrals = <<>>
    /\ confirmations = [o \in 1..MaxOrders |-> 0]
    /\ tracking = <<>>
    /\ clock = 0
    /\ events = 0
    /\ last = Request("start", None, "none", "none")
    /\ procs = [w \in Workers |-> Idle]

\* ------------------------------------------------------------- submit_order

\* the posted forms: every service_id and tier with the other fields valid,
\* and one form whose other fields do not validate
OrderRequests ==
    [service_id : ServiceInputs, service_tier : TierInputs, email : {"a@x"},
     fieldsOk : {TRUE}]
    \cup [service_id : {1}, service_tier : {"basic"}, email : {"a@x"},
          fieldsOk : {FALSE}]

submit_order_resp(req) ==
    IF ~OrderFormValid(req) THEN "render_order_form"
    ELSE IF req.service_id \notin ServiceIds THEN "invalid_service"
    ELSE IF Falsy(tier_prices(Services[req.service_id], req.service_tier))
         THEN "invalid_tier"
    ELSE "redirect_checkout"

\* the Order table after submit_order; the commit precedes the send, whose
\* exception is caught and logged
submit_order_orders(ords, req, send) ==
    IF submit_order_resp(req) # "redirect_checkout" THEN ords
    ELSE Append(ords, NewOrder(req.email, req.service_id, req.service_tier,
                    tier_prices(Services[req.service_id], req.service_tier)))

submit_order ==
    /\ \E req \in OrderRequests :
        LET created == submit_order_resp(req) = "redirect_checkout"
        IN /\ created => Len(orders) < MaxOrders /\ events < MaxEvents
           /\ \E send \in IF created THEN SendOutcomes ELSE {"none"} :
                /\ orders' = submit_order_orders(orders, req, send)
                /\ last' = Request("submit_order",
                                   IF created THEN Len(orders) + 1 ELSE None,
                                   submit_order_resp(req), send)
           /\ events' = IF created THEN events + 1 ELSE events
    /\ UNCHANGED <<procs, clock, issued, stripe_api_key, referrals, confirmations, tracking>>

\* ------------------------------------------------- create_checkout_session

ProviderOutcomes == {"ok", "raised"}

create_checkout_session_resp(ords, order_id, key, provider) ==
    IF order_id \notin 1..Len(ords) THEN "404"
    ELSE IF ~key THEN "not_configured"
    ELSE IF provider = "raised" THEN "stripe_error"
    ELSE "redirect_stripe"

\* stripe.checkout.Session.create: the provider is called only with a key, and
\* returns a fresh session unless it raises
stripe_Session_create(iss, ords, order_id, key, provider) ==
    IF create_checkout_session_resp(ords, order_id, key, provider) = "redirect_stripe"
    THEN Append(iss, [order |-> order_id, paid |-> FALSE])
    ELSE iss

\* create_checkout_session saving the session id although the provider raised
create_checkout_session_orders_early_save(ords, order_id, key, provider, token) ==
    IF create_checkout_session_resp(ords, order_id, key, provider)
          \in {"redirect_stripe", "stripe_error"}
    THEN [ords EXCEPT ![order_id].stripe_session_id = token]
    ELSE ords

\* the Order table after create_checkout_session; token is checkout_session.id
create_checkout_session_orders(ords, order_id, key, provider, token) ==
    IF create_checkout_session_resp(ords, order_id, key, provider) = "redirect_stripe"
    THEN [ords EXCEPT ![order_id].stripe_session_id = token]
    ELSE ords

create_checkout_session ==
    /\ \E order_id \in 1..MaxOrders, provider \in ProviderOutcomes :
        LET resp == create_checkout_session_resp(orders, order_id, stripe_api_key,
                                                 provider)
        IN /\ resp = "redirect_stripe" =>
                Len(issued) < MaxSessions /\ events < MaxEvents
           /\ issued' = stripe_Session_create(issued, orders, order_id,
                                              stripe_api_key, provider)
           /\ orders' = create_checkout_session_orders(orders, order_id,
                            stripe_api_key, provider, Len(issued) + 1)
           /\ last' = Request("create_checkout_session",
                              IF resp = "redirect_stripe" THEN order_id ELSE None,
                              resp, "none")
           /\ events' = IF resp = "redirect_stripe" THEN events + 1 ELSE events
    /\ UNCHANGED <<procs, clock, stripe_api_key, referrals, confirmations, tracking>>

\* the customer completes the payment on the provider's hosted checkout page
customer_pays ==
    /\ events < MaxEvents
    /\ \E s \in 1..Len(issued) :
        /\ ~issued[s].paid
        /\ issued' = [issued EXCEPT ![s].paid = TRUE]
        /\ last' = Request("customer_pays", issued[s].order, "none", "none")
    /\ events' = events + 1
    /\ UNCHANGED <<procs, clock, orders, stripe_api_key, referrals, confirmations, tracking>>

\* ---------------------------------------------------------- payment_success

\* request.args.get('session_id'): absent, a token the provider issued, or a
\* token it never issued
SessionInputs == 0..(MaxSessions + 1)

\* the order payment_success finds, None when session_id is absent or matches
\* no row
payment_success_order(ords, session_id) ==
    IF session_id = None THEN None ELSE OrderBySession(ords, session_id)

\* payment_success forgetting to move the order to in_progress
payment_success_orders_no_status(ords, session_id, send) ==
    LET order == payment_success_order(ords, session_id)
    IN IF order = None THEN ords
       ELSE [ords EXCEPT ![order].payment_status = "paid"]

\* payment_success sending before it commits, the exception undoing the change
payment_success_orders_rollback(ords, session_id, send) ==
    LET order == payment_success_order(ords, session_id)
    IN IF order = None \/ send = "raised" THEN ords
       ELSE [ords EXCEPT ![order].payment_status = "paid",
                         ![order].status = "in_progress"]

\* the Order table after payment_success; the commit precedes the send, whose
\* exception is caught and logged
payment_success_orders(ords, session_id, send) ==
    LET order == payment_success_order(ords, session_id)
    IN IF order = None THEN ords
       ELSE [ords EXCEPT ![order].payment_status = "paid",
                         ![order].status = "in_progress"]

\* mail.send(msg) to the order's customer, unless it raises
send_payment_confirmation_email(sent, order, send) ==
    IF send = "sent" THEN [sent EXCEPT ![order] = @ + 1] ELSE sent

payment_success ==
    /\ \E session_id \in SessionInputs :
        LET order == payment_success_order(orders, session_id)
        IN /\ order # None => events < MaxEvents
           /\ \E send \in IF order # None THEN SendOutcomes ELSE {"none"} :
                /\ orders' = payment_success_orders(orders, session_id, send)
                /\ confirmations' =
                      IF order = None THEN confirmations
                      ELSE send_payment_confirmation_email(confirmations, order, send)
                /\ last' = Request("payment_success", order,
                                   IF order = None THEN "success_plain"
                                   ELSE "success_order", send)
           /\ events' = IF order = None THEN events ELSE events + 1
    /\ UNCHANGED <<procs, clock, issued, stripe_api_key, referrals, tracking>>

\* ----------------------------------------------------------- payment_cancel

payment_cancel ==
    /\ \E order_id \in 0..MaxOrders :
        last' = Request("payment_cancel", None,
                        IF order_id \in OrderIds THEN "cancel_order"
                        ELSE "cancel_plain", "none")
    /\ UNCHANGED <<procs, orders, issued, stripe_api_key, referrals, confirmations,
                   tracking, clock, events>>

\* ------------------------------------------------------- admin_update_order

\* the posted forms: every status and note, and one form that does not validate
StatusForms ==
    [valid : {TRUE}, status : StatusChoices, admin_notes : Notes]
    \cup [valid : {FALSE}, status : {"pending"}, admin_notes : {""}]

\* admin_update_order taking the payment back when it sets the order pending
\* or cancelled
admin_update_order_orders_unpay(ords, order_id, form, now, send) ==
    IF order_id \notin 1..Len(ords) \/ ~form.valid THEN ords
    ELSE [ords EXCEPT
            ![order_id].status = form.status,
            ![order_id].admin_notes = form.admin_notes,
            ![order_id].updated_at = now,
            ![order_id].completed_at =
                IF form.status = "completed" /\ ords[order_id].status # "completed"
                THEN now ELSE @,
            ![order_id].payment_status =
                IF form.status \in {"pending", "cancelled"} THEN "unpaid" ELSE @]

\* the Order table after admin_update_order at time now; the commit precedes
\* the send, whose exception is caught and logged
admin_update_order_orders(ords, order_id, form, now, send) ==
    IF order_id \notin 1..Len(ords) \/ ~form.valid THEN ords
    ELSE LET old_status == ords[order_id].status
         IN [ords EXCEPT
                ![order_id].status = form.status,
                ![order_id].admin_notes = form.admin_notes,
                ![order_id].updated_at = now,
                ![order_id].completed_at =
                    IF form.status = "completed" /\ old_status # "completed"
                    THEN now ELSE @]

\* send_status_update_email without the comparison of the two statuses
send_status_update_email_always(old_status, new_status) == TRUE

\* whether send_status_update_email sends at all: it returns at once when the
\* status did not change
send_status_update_email(old_status, new_status) == old_status # new_status

admin_update_order ==
    /\ \E order_id \in 1..MaxOrders, form \in StatusForms :
        LET found == order_id \in OrderIds
            acted == found /\ form.valid
            mailed == acted /\ send_status_update_email(orders[order_id].status,
                                                        form.status)
        IN /\ acted => events < MaxEvents
           /\ \E send \in IF mailed THEN SendOutcomes ELSE {"none"} :
                /\ orders' = admin_update_order_orders(orders, order_id, form, Now,
                                                       send)
                /\ last' = Request("admin_update_order",
                                   IF acted THEN order_id ELSE None,
                                   IF ~found THEN "404"
                                   ELSE IF form.valid THEN "updated"
                                   ELSE "redirect_detail",
                                   send)
           /\ events' = IF acted THEN events + 1 ELSE events
           /\ clock' = IF acted THEN Now ELSE clock
    /\ UNCHANGED <<procs, issued, stripe_api_key, referrals, confirmations, tracking>>

\* ------------------------------------------------------------- refer_friend

\* the posted forms: one referrer referring every email, and one form that does
\* not validate
ReferralForms ==
    [valid : {TRUE}, referrer_email : {"a@x"}, referred_email : Emails]
    \cup [valid : {FALSE}, referrer_email : {"a@x"}, referred_email : {"a@x"}]

\* Referral.query.filter_by(referrer_email=..., referred_email=...).first()
existing(refs, form) ==
    \E r \in 1..Len(refs) :
        /\ refs[r].referrer_email = form.referrer_email
        /\ refs[r].referred_email = form.referred_email

refer_friend_resp(refs, form) ==
    IF ~form.valid THEN "render_referral_form"
    ELSE IF existing(refs, form) THEN "already_referred"
    ELSE "redirect_refer"

\* the Referral table after refer_friend; the commit precedes the send, whose
\* exception is caught and logged
refer_friend_referrals(refs, form, send) ==
    IF refer_friend_resp(refs, form) # "redirect_refer" THEN refs
    ELSE Append(refs, [referrer_email |-> form.referrer_email,
                       referred_email |-> form.referred_email])

refer_friend ==
    /\ \E form \in ReferralForms :
        LET created == refer_friend_resp(referrals, form) = "redirect_refer"
        IN /\ created => Len(referrals) < MaxReferrals /\ events < MaxEvents
           /\ \E send \in IF created THEN SendOutcomes ELSE {"none"} :
                /\ referrals' = refer_friend_referrals(referrals, form, send)
                /\ last' = Request("refer_friend",
                                   IF created THEN Len(referrals) + 1 ELSE None,
                                   refer_friend_resp(referrals, form), send)
           /\ events' = IF created THEN events + 1 ELSE events
    /\ UNCHANGED <<procs, clock, orders, issued, stripe_api_key, confirmations, tracking>>

\* -------------------------------------------------------------- track_order

\* the order_id a client can put in the query string: absent, the id of a row
\* the table can hold, or an id past the table's end
TrackIds == 0..(MaxTable + 1)

\* the email a client can put in the query string: absent, an email an order
\* can carry, or one that no order carries
TrackEmails == {""} \cup Emails \cup {"c@x"}

\* not order_id or not email
track_order_missing(order_id, email) == order_id = None \/ email = ""

\* the lookup with the email left out of the filter
track_order_order_by_id(ords, order_id, email) ==
    IF order_id \in 1..Len(ords) THEN order_id ELSE None

\* Order.query.filter_by(id=order_id, email=email).first(); None if no row
track_order_order(ords, order_id, email) ==
    IF order_id \in 1..Len(ords) /\ ords[order_id].email = email
    THEN order_id ELSE None

\* what track_order.html is rendered with: the flashed message, the order (no
\* row or one row) and its tracking updates
track_order_resp(ords, trk, order_id, email) ==
    LET order == track_order_order(ords, order_id, email)
    IN IF track_order_missing(order_id, email)
       THEN [flash |-> "none", order |-> <<>>, tracking_updates |-> <<>>]
       ELSE IF order = None
       THEN [flash |-> "Order not found. Please check your order ID and email.",
             order |-> <<>>, tracking_updates |-> <<>>]
       ELSE [flash |-> "none", order |-> <<ords[order]>>,
             tracking_updates |-> SelectSeq(trk, LAMBDA u : u.order_id = order)]

track_order ==
    /\ \E order_id \in TrackIds, email \in TrackEmails :
        LET resp == track_order_resp(orders, tracking, order_id, email)
        IN last' = Request("track_order",
                           IF resp.order = <<>> THEN None
                           ELSE track_order_order(orders, order_id, email),
                           IF resp.order # <<>> THEN "track_found"
                           ELSE IF resp.flash = "none" THEN "track_form"
                           ELSE "track_not_found",
                           "none")
    /\ UNCHANGED <<procs, orders, issued, stripe_api_key, referrals, confirmations,
                   tracking, clock, events>>

\* ------------------------------------------------------------- specification

Next ==
    \/ submit_order
    \/ create_checkout_session
    \/ customer_pays
    \/ payment_success
    \/ payment_cancel
    \/ admin_update_order
    \/ refer_friend

Spec == Init /\ [][Next]_vars

\* ---------------------------------------------- specification: track_order

\* the Order tables of up to MaxTable orders that submit_order can have built
TrackTables ==
    UNION {[1..n -> {NewOrder(e, 1, t, tier_prices(Services[1], t)) :
                        e \in Emails, t \in Tiers}] : n \in 0..MaxTable}

InitTrack ==
    /\ orders \in TrackTables
    /\ issued = <<>>
    /\ stripe_api_key = TRUE
    /\ referrals = <<>>
    /\ confirmations = [o \in 1..MaxOrders |-> 0]
    /\ tracking = <<>>
    /\ clock = 0
    /\ events = 0
    /\ last = Request("start", None, "none", "none")
    /\ procs = [w \in Workers |-> Idle]

NextTrack == track_order

SpecTrack == InitTrack /\ [][NextTrack]_vars

\* ------------------------------------- specification: Spec with the lookups

NextLookups == Next \/ track_order

SpecLookups == Init /\ [][NextLookups]_vars

\* ----------------------------------------- specification: refer_friend, split

\* db.session.add(referral); db.session.commit(): the row is inserted as it
\* is, nothing re-reads the table
Referral_add(refs, form) ==
    Append(refs, [referrer_email |-> form.referrer_email,
                  referred_email |-> form.referred_email])

\* validate_on_submit() and the existence query of one refer_friend request
refer_friend_query(w) ==
    /\ procs[w].pc = "idle"
    /\ \E form \in ReferralForms :
        LET resp == refer_friend_resp(referrals, form)
        IN IF resp = "redirect_refer"
           THEN /\ events < MaxEvents
                /\ procs' = [procs EXCEPT ![w] = [pc |-> "commit", form |-> form]]
                /\ events' = events + 1
                /\ last' = last
           ELSE /\ last' = Request("refer_friend", None, resp, "none")
                /\ UNCHANGED <<procs, events>>
    /\ UNCHANGED <<orders, issued, stripe_api_key, referrals, confirmations,
                   tracking, clock>>

\* the insert and commit of a request whose query found no row
refer_friend_commit(w) ==
    /\ procs[w].pc = "commit"
    /\ Len(referrals) < MaxReferrals
    /\ referrals' = Referral_add(referrals, procs[w].form)
    /\ procs' = [procs EXCEPT ![w] = [pc |-> "send", referral |-> Len(referrals) + 1]]
    /\ UNCHANGED <<orders, issued, stripe_api_key, confirmations, tracking, clock,
                   events, last>>

\* send_referral_emails and the redirect
refer_friend_send(w) ==
    /\ procs[w].pc = "send"
    /\ \E send \in SendOutcomes :
        last' = Request("refer_friend", procs[w].referral, "redirect_refer", send)
    /\ procs' = [procs EXCEPT ![w] = Idle]
    /\ UNCHANGED <<orders, issued, stripe_api_key, referrals, confirmations,
                   tracking, clock, events>>

NextRefer ==
    \E w \in Workers :
        \/ refer_friend_query(w)
        \/ refer_friend_commit(w)
        \/ refer_friend_send(w)

SpecRefer == Init /\ [][NextRefer]_vars

\* ------------- specification: admin_update_order and payment_success, split

\* the UPDATE that db.session.commit() flushes for a row loaded as `loaded`
\* and assigned to `assigned`: it sets the columns whose value the request
\* changed, and leaves the others as the table has them
Flush(ords, order_id, loaded, assigned) ==
    [ords EXCEPT ![order_id] =
        [c \in DOMAIN loaded |->
            IF assigned[c] # loaded[c] THEN assigned[c] ELSE ords[order_id][c]]]

\* the table with the row of order_id as a request loaded it
Loaded(ords, order_id, loaded) == [ords EXCEPT ![order_id] = loaded]

\* Order.query.get_or_404(order_id), form.validate_on_submit(), and the
\* assignments up to the commit, with their datetime.utcnow()
admin_update_order_load(w) ==
    /\ procs[w].pc = "arrived"
    /\ procs[w].op = "admin_update_order"
    /\ procs[w].order_id \in OrderIds /\ procs[w].form.valid
    /\ procs' = [procs EXCEPT ![w] =
                    [pc |-> "commit", loaded |-> orders[procs[w].order_id],
                     now |-> Now] @@ procs[w]]
    /\ clock' = Now
    /\ UNCHANGED <<orders, issued, stripe_api_key, referrals, confirmations,
                   tracking, events, last>>

admin_update_order_commit(w) ==
    /\ procs[w].pc = "commit"
    /\ procs[w].op = "admin_update_order"
    /\ LET order_id == procs[w].order_id
           assigned == admin_update_order_orders(
                           Loaded(orders, order_id, procs[w].loaded), order_id,
                           procs[w].form, procs[w].now, "none")[order_id]
       IN orders' = Flush(orders, order_id, procs[w].loaded, assigned)
    /\ procs' = [procs EXCEPT ![w].pc = "send"]
    /\ UNCHANGED <<issued, stripe_api_key, referrals, confirmations, tracking,
                   clock, events, last>>

\* send_status_update_email(order, old_status): order.status is read after the
\* commit, which expired the loaded row, so it is the table's value
admin_update_order_send(w) ==
    /\ procs[w].pc = "send"
    /\ procs[w].op = "admin_update_order"
    /\ LET mailed == send_status_update_email(procs[w].loaded.status,
                                              orders[procs[w].order_id].status)
       IN /\ procs' = [procs EXCEPT ![w] = [pc |-> "done", mailed |-> mailed] @@ @]
          /\ last' = Request("admin_update_order", procs[w].order_id, "updated",
                             IF mailed THEN "sent" ELSE "none")
    /\ UNCHANGED <<orders, issued, stripe_api_key, referrals, confirmations,
                   tracking, clock, events>>

\* Order.query.filter_by(stripe_session_id=session_id).first() and the two
\* assignments
payment_success_load(w) ==
    /\ procs[w].pc = "arrived"
    /\ procs[w].op = "payment_success"
    /\ payment_success_order(orders, procs[w].session_id) # None
    /\ LET order == payment_success_order(orders, procs[w].session_id)
       IN procs' = [procs EXCEPT ![w] =
                       [pc |-> "commit", order_id |-> order,
                        loaded |-> orders[order]] @@ procs[w]]
    /\ UNCHANGED <<orders, issued, stripe_api_key, referrals, confirmations,
                   tracking, clock, events, last>>

payment_success_commit(w) ==
    /\ procs[w].pc = "commit"
    /\ procs[w].op = "payment_success"
    /\ LET order_id == procs[w].order_id
           assigned == payment_success_orders(
                           Loaded(orders, order_id, procs[w].loaded),
                           procs[w].session_id, "none")[order_id]
       IN orders' = Flush(orders, order_id, procs[w].loaded, assigned)
    /\ procs' = [procs EXCEPT ![w].pc = "send"]
    /\ UNCHANGED <<issued, stripe_api_key, referrals, confirmations, tracking,
                   clock, events, last>>

payment_success_send(w) ==
    /\ procs[w].pc = "send"
    /\ procs[w].op = "payment_success"
    /\ confirmations' = send_payment_confirmation_email(confirmations,
                                                        procs[w].order_id, "sent")
    /\ procs' = [procs EXCEPT ![w] = [pc |-> "done", mailed |-> TRUE] @@ @]
    /\ last' = Request("payment_success", procs[w].order_id, "success_order",
                       "sent")
    /\ UNCHANGED <<orders, issued, stripe_api_key, referrals, tracking, clock,
                   events>>

\* an order that holds a checkout session token, in any status and payment
\* status the handlers can have left it in
RaceOrders ==
    {<<[NewOrder("a@x", 1, "basic", tier_prices(Services[1], "basic"))
          EXCEPT !.stripe_session_id = 1, !.status = st, !.payment_status = ps,
                 !.completed_at = IF st = "completed" THEN 1 ELSE None]>> :
        st \in StatusChoices, ps \in {"unpaid", "paid"}}

\* one admin_update_order and one payment_success for the same order have
\* arrived, on two workers; each keeps the table as it was on arrival
InitRace ==
    /\ orders \in RaceOrders
    /\ issued = <<[order |-> 1, paid |-> TRUE]>>
    /\ stripe_api_key = TRUE
    /\ referrals = <<>>
    /\ confirmations = [o \in 1..MaxOrders |-> 0]
    /\ tracking = <<>>
    /\ clock = 1
    /\ events = 0
    /\ last = Request("start", None, "none", "none")
    /\ \E form \in {f \in StatusForms : f.valid} :
        procs = [w \in Workers |->
                    IF w = 1
                    THEN [pc |-> "arrived", op |-> "admin_update_order",
                          order_id |-> 1, form |-> form, before |-> orders]
                    ELSE IF w = 2
                    THEN [pc |-> "arrived", op |-> "payment_success",
                          session_id |-> 1, before |-> orders]
                    ELSE Idle]

NextRace ==
    \E w \in Workers :
        \/ admin_update_order_load(w)
        \/ admin_update_order_commit(w)
        \/ admin_update_order_send(w)
        \/ payment_success_load(w)
        \/ payment_success_commit(w)
        \/ payment_success_send(w)

SpecRace == InitRace /\ [][NextRace]_vars

\* ------------------------------------------------------------------ claims

Paid(o) == orders[o].payment_status = "paid"

\* C1: an order is paid only if the provider holds a completed payment for the
\* checkout session stored on the order; no request made of client input alone
\* makes it paid.
C1_PaidOnlyIfVerified ==
    \A o \in OrderIds :
        Paid(o) => /\ orders[o].stripe_session_id # None
                   /\ issued[orders[o].stripe_session_id].paid

\* C2: payment_success with the token of an order that is already paid is a
\* no-op: the order is left as it was and no payment confirmation is sent.
C2_PaidCallbackIsNoOp ==
    [][(/\ last'.op = "payment_success"
        /\ last'.oid # None
        /\ Paid(last'.oid))
       => orders' = orders /\ confirmations' = confirmations]_vars

\* C3: payment_success called twice in a row with an order's token leaves the
\* order as the first call left it: in_progress and paid.
C3_SuccessIdempotent ==
    [][(/\ last.op = "payment_success"
        /\ last'.op = "payment_success"
        /\ last.oid # None
        /\ last'.oid = last.oid)
       => /\ orders' = orders
          /\ orders'[last'.oid].status = "in_progress"
          /\ orders'[last'.oid].payment_status = "paid"]_vars

C3_Witness ==
    /\ last.op = "payment_success"
    /\ last.oid # None
    /\ confirmations[last.oid] >= 2
    /\ orders[last.oid].status = "in_progress"

\* the edges of the status state machine
Edges ==
    {<<"pending", "in_progress">>, <<"in_progress", "completed">>,
     <<"pending", "cancelled">>, <<"in_progress", "cancelled">>}

\* C4: an order starts pending and its status changes only along pending ->
\* in_progress -> completed, or to cancelled from pending or in_progress;
\* completed and cancelled are never left.
C4_StatusEdges ==
    [][/\ \A o \in OrderIds :
            \/ orders'[o].status = orders[o].status
            \/ <<orders[o].status, orders'[o].status>> \in Edges
       /\ \A o \in (Len(orders) + 1)..Len(orders') :
            orders'[o].status = "pending"]_vars

\* C5: completed_at is written only by an admin_update_order that takes the
\* order from pending or in_progress to completed.
C5_CompletedAtOnlyOnEdge ==
    [][\A o \in OrderIds :
        orders'[o].completed_at # orders[o].completed_at
        => /\ last'.op = "admin_update_order"
           /\ orders[o].status \in {"pending", "in_progress"}
           /\ orders'[o].status = "completed"]_vars

\* C6: every change of an order's status appends exactly one OrderTracking
\* record for that order, and the records already there stay as they are.
C6_TrackingPerStatusChange ==
    [][\A o \in OrderIds :
        orders'[o].status # orders[o].status
        => /\ Len(tracking') = Len(tracking) + 1
           /\ SubSeq(tracking', 1, Len(tracking)) = tracking
           /\ tracking'[Len(tracking')].order_id = o]_vars

\* the price of each tier of each service, read off the Service table
PriceTable ==
    [s \in ServiceIds |->
        [t \in Tiers |-> IF t = "basic" THEN Services[s].price_basic
                         ELSE IF t = "standard" THEN Services[s].price_standard
                         ELSE Services[s].price_premium]]

C8_FailedCheckoutWritesNothing ==
    [][(/\ last'.op = "create_checkout_session"
        /\ last'.resp \in {"not_configured", "stripe_error"})
       => /\ orders' = orders
          /\ last'.resp = "not_configured" => issued' = issued]_vars

C8_Witness ==
    /\ last.op = "create_checkout_session"
    /\ last.resp = "stripe_error"
    /\ \E o \in OrderIds : orders[o].stripe_session_id # None

\* C9: once an order holds a session token, no operation changes it.
C9_SessionIdSetOnce ==
    [][\A o \in OrderIds :
        orders[o].stripe_session_id # None
        => orders'[o].stripe_session_id = orders[o].stripe_session_id]_vars

\* C10: when the notification send of submit_order, payment_success,
\* admin_update_order or refer_friend raises, the handler still answers as
\* usual and its change is committed, the same change as when the send
\* succeeds.
C10_SendFailureKeepsCommit ==
    /\ last.mail = "raised"
       => CASE last.op = "submit_order" ->
                 /\ last.resp = "redirect_checkout"
                 /\ last.oid = Len(orders)
                 /\ orders[last.oid].status = "pending"
            [] last.op = "payment_success" ->
                 /\ last.resp = "success_order"
                 /\ Paid(last.oid)
                 /\ orders[last.oid].status = "in_progress"
            [] last.op = "admin_update_order" ->
                 /\ last.resp = "updated"
                 /\ orders[last.oid].updated_at = clock
            [] last.op = "refer_friend" ->
                 /\ last.resp = "redirect_refer"
                 /\ last.oid = Len(referrals)
            [] OTHER -> FALSE
    /\ \A req \in OrderRequests :
        submit_order_orders(orders, req, "raised")
            = submit_order_orders(orders, req, "sent")
    /\ \A session_id \in SessionInputs :
        payment_success_orders(orders, session_id, "raised")
            = payment_success_orders(orders, session_id, "sent")
    /\ \A order_id \in OrderIds, form \in StatusForms :
        admin_update_order_orders(orders, order_id, form, Now, "raised")
            = admin_update_order_orders(orders, order_id, form, Now, "sent")
    /\ \A form \in ReferralForms :
        refer_friend_referrals(referrals, form, "raised")
            = refer_friend_referrals(referrals, form, "sent")

C10_Witness ==
    /\ last.op = "payment_success"
    /\ last.mail = "raised"
    /\ Paid(last.oid)

\* the one response every lookup that matches no order gets
NotFound ==
    [flash |-> "Order not found. Please check your order ID and email.",
     order |-> <<>>, tracking_updates |-> <<>>]

\* C11: track_order shows an order only when the order_id and the email given
\* are those of one and the same order, and every pair that matches no order
\* (right id with a wrong email, wrong id with the email of another order,
\* both wrong) gets the same Not Found response.
C11_TrackNeedsBothAndHidesWhich ==
    /\ \A order_id \in TrackIds \ {None}, email \in TrackEmails \ {""} :
        LET resp == track_order_resp(orders, tracking, order_id, email)
            match == order_id \in OrderIds /\ orders[order_id].email = email
        IN /\ match => resp.order = <<orders[order_id]>>
           /\ ~match => resp = NotFound
    /\ (last.op = "track_order" /\ last.resp = "track_found")
       => last.oid \in OrderIds
    /\ (last.op = "track_order" /\ last.resp # "track_found")
       => last.oid = None

\* two orders with different emails, and a lookup that did not match
C11_Witness ==
    /\ Len(orders) >= 2
    /\ orders[1].email # orders[2].email
    /\ track_order_resp(orders, tracking, 1, orders[2].email) = NotFound
    /\ track_order_resp(orders, tracking, 2, orders[2].email).order = <<orders[2]>>
    /\ last.op = "track_order"
    /\ last.resp = "track_not_found"

\* C12: no two Referral rows carry the same (referrer_email, referred_email)
\* pair, also when two refer_friend requests for the pair interleave between
\* the existence query and the insert.
C12_NoDuplicateReferral ==
    \A i, j \in 1..Len(referrals) :
        (/\ referrals[i].referrer_email = referrals[j].referrer_email
         /\ referrals[i].referred_email = referrals[j].referred_email)
        => i = j

\* what the claim compares: the order's status, payment_status and
\* completed_at, and the notifications sent
Outcome(row, status_mail, payment_mail) ==
    [status |-> row.status, payment_status |-> row.payment_status,
     completed_at |-> row.completed_at,
     mails |-> (IF status_mail THEN {"status_update"} ELSE {})
               \cup (IF payment_mail THEN {"payment_confirmation"} ELSE {})]

\* the outcome of the admin update, then the payment callback, one after the
\* other on the table `before`
SerialAdminFirst(before, form, now) ==
    LET a == admin_update_order_orders(before, 1, form, now, "sent")
        p == payment_success_orders(a, 1, "sent")
    IN Outcome(p[1], send_status_update_email(before[1].status, a[1].status), TRUE)

\* the outcome of the payment callback, then the admin update
SerialPaymentFirst(before, form, now) ==
    LET p == payment_success_orders(before, 1, "sent")
        a == admin_update_order_orders(p, 1, form, now, "sent")
    IN Outcome(a[1], send_status_update_email(p[1].status, a[1].status), TRUE)

\* C13: when an admin_update_order and a payment_success for the same order
\* run at once, each loading the order, then committing, then sending, the
\* order's final status, payment_status and completed_at and the
\* notifications sent are those of one of the two serial orders.
C13_RaceIsSerializable ==
    (procs[1].pc = "done" /\ procs[2].pc = "done")
    => Outcome(orders[1], procs[1].mailed, procs[2].mailed)
          \in {SerialAdminFirst(procs[1].before, procs[1].form, procs[1].now),
               SerialPaymentFirst(procs[1].before, procs[1].form, procs[1].now)}

\* a step of admin_update_order that wrote the order last'.oid
AdminUpdated == last'.op = "admin_update_order" /\ last'.resp = "updated"

\* C14 as stated: admin_update_order with the status the order already has
\* leaves the order record as it was and sends no status-update notification,
\* and a notification goes out only when the status changes.
C14_SameStatusIsNoOp ==
    [][AdminUpdated
       => /\ orders'[last'.oid].status = orders[last'.oid].status
             => orders' = orders /\ last'.mail = "none"
          /\ last'.mail # "none"
             => orders'[last'.oid].status # orders[last'.oid].status]_vars

\* C14: admin_update_order with the status the order already has still writes
\* admin_notes and updated_at and leaves every other column, completed_at
\* included, and every other order as it was; it sends no status-update
\* notification, and a notification is attempted exactly when the status
\* changes.
C14_SameStatusWritesNotesOnly ==
    [][AdminUpdated
       => LET o == last'.oid
          IN /\ orders'[o].status = orders[o].status
                => /\ orders' = [orders EXCEPT
                                    ![o].admin_notes = orders'[o].admin_notes,
                                    ![o].updated_at = clock']
                   /\ orders'[o].admin_notes \in Notes
                   /\ orders'[o].updated_at # orders[o].updated_at
                   /\ orders'[o].completed_at = orders[o].completed_at
                   /\ last'.mail = "none"
             /\ last'.mail # "none"
                <=> orders'[o].status # orders[o].status]_vars

\* an update that kept the status has just written the notes and the time
C14_Witness ==
    /\ last.op = "admin_update_order"
    /\ last.resp = "updated"
    /\ last.mail = "none"
    /\ orders[last.oid].admin_notes = "note"
    /\ orders[last.oid].updated_at = clock
    /\ orders[last.oid].status = "pending"

\* C15: an order that is paid stays paid whatever request follows (admin
\* updates to any status, further checkout sessions, success and cancel
\* callbacks, tracking lookups), and admin_update_order never changes an
\* order's payment_status, total_amount or stripe_session_id.
C15_PaidStaysPaid ==
    [][/\ \A o \in OrderIds : Paid(o) => orders'[o].payment_status = "paid"
       /\ last'.op = "admin_update_order"
          => /\ Len(orders') = Len(orders)
             /\ \A o \in OrderIds :
                  /\ orders'[o].payment_status = orders[o].payment_status
                  /\ orders'[o].total_amount = orders[o].total_amount
                  /\ orders'[o].stripe_session_id = orders[o].stripe_session_id]_vars

\* an admin has just set a paid order to cancelled, and it is still paid
C15_Witness ==
    /\ last.op = "admin_update_order"
    /\ last.resp = "updated"
    /\ orders[last.oid].status = "cancelled"
    /\ orders[last.oid].stripe_session_id # None
    /\ Paid(last.oid)

====
